---- MODULE Spec2Model ----
(***************************************************************************)
(* Model of the disease ranking engine of get_diagnosis.py: the edge cost  *)
(* transform, the heuristic, the multi-source best-first search            *)
(* (a_star_search) and the pipeline around it (main).                      *)
(*                                                                         *)
(* Numbers.  An edge weight is a dyadic rational num / Den with            *)
(* Den = 2^MaxExp; the model keeps the numerator.  -log(num / Den) is      *)
(* (MaxExp - log2(num)) * ln 2, so every cost is kept as an integer count  *)
(* of ln 2.  float('inf') is Inf, a number above every finite cost the     *)
(* search can form.  Node identifiers are the integers 1..NumNodes, in     *)
(* the order Python compares the identifier strings.  The graph has no     *)
(* self-loops.                                                             *)
(***************************************************************************)
EXTENDS Integers, Sequences, FiniteSets, Bags, TLC

\* ---------------------------------------------------------------- bounds
NumNodes == 3
MaxExp == 2
MaxSymptoms == 2
NumLabels == 2
MaxRows == 3

Nodes == 1..NumNodes
\* One identifier that is no node of the graph (an unknown symptom).
Unknown == NumNodes + 1
Ids == Nodes \cup {Unknown}

RECURSIVE Pow2(_)
Pow2(k) == IF k = 0 THEN 1 ELSE 2 * Pow2(k - 1)

Den == Pow2(MaxExp)
\* Above every accumulated cost plus heuristic: a path has at most
\* NumNodes - 1 edges of cost at most MaxExp each.
Inf == NumNodes * MaxExp + 1

Pairs == {e \in SUBSET Nodes : Cardinality(e) = 2}
\* Edge data: <<>> is an edge without a weight attribute, <<num>> one whose
\* weight is num / Den.
Weights == {0 - Den, 0} \cup {Pow2(k) : k \in 0..MaxExp}
EdgeData == {<<>>} \cup {<<w>> : w \in Weights}
Groups == {"symptom", "disease"}

SeqsUpTo(S, n) == UNION {[1..k -> S] : k \in 0..n}

VARIABLES
    G,          \* the knowledge graph: node groups, edge data, node order
    symptoms,   \* the symptom list: main's local, a_star_search's argument
    run,        \* one invocation of a_star_search
    rerun,      \* a repeated invocation on the same graph and symptoms
    loaded,     \* what load_symptoms returned to main
    mpc,        \* main's position
    output,     \* the possible-diseases file
    relisted,   \* the symptom list of rerun, when it is not symptoms
    evaluation  \* kaggle_test's main: its locals and its position

vars == <<G, symptoms, run, rerun, loaded, mpc, output, relisted, evaluation>>

\* ------------------------------------------------------------- the graph
\* G.neighbors(u), in no particular order.
Neighbors(g, u) == {v \in Nodes : {u, v} \in DOMAIN g.edge}

IsDisease(g, n) == g.group[n] = "disease"

\* math.log on a positive dyadic weight, as log2 of the numerator.
RECURSIVE Log2(_)
Log2(n) == IF n <= 1 THEN 0 ELSE 1 + Log2(n \div 2)

\* -log(num / Den), in units of ln 2.
NegLog(num) == MaxExp - Log2(num)

\* A slip: a missing weight read as 1.0.
WeightOfDefaultOne(g, u, v) ==
    LET data == g.edge[{u, v}]
    IN  IF data = <<>> THEN Den ELSE data[1]

\* G[u][v].get('weight', 0.0)
WeightOf(g, u, v) ==
    LET data == g.edge[{u, v}]
    IN  IF data = <<>> THEN 0 ELSE data[1]

edge_weight(g, u, v) ==
    LET weight == WeightOf(g, u, v)
    IN  IF weight <= 0 THEN Inf ELSE NegLog(weight)

SetMin(S) == CHOOSE x \in S : \A y \in S : x <= y

SetMax(S) == CHOOSE x \in S : \A y \in S : y <= x

\* A slip: the dearest edge at the node instead of the cheapest.
heuristic_max(node, g) ==
    IF g.group[node] = "disease" THEN 0
    ELSE LET weights == {IF WeightOf(g, node, nb) <= 0 THEN Inf
                          ELSE NegLog(WeightOf(g, node, nb)) :
                            nb \in {v \in Nodes : {node, v} \in DOMAIN g.edge}}
         IN  IF weights = {} THEN 0 ELSE SetMax(weights)

heuristic(node, g) ==
    IF IsDisease(g, node) THEN 0
    ELSE LET weights == {edge_weight(g, node, nb) : nb \in Neighbors(g, node)}
         IN  IF weights = {} THEN 0 ELSE SetMin(weights)

\* ------------------------------------------------------------- the queue
\* A queue entry is the tuple (estimated_total_cost, node, cost); Python
\* compares tuples lexicographically.
TupleLess(a, b) ==
    \/ a[1] < b[1]
    \/ a[1] = b[1] /\ a[2] < b[2]
    \/ a[1] = b[1] /\ a[2] = b[2] /\ a[3] < b[3]

\* A slip: entries compared by estimated total cost alone.
HeapMinByEstimate(queue) ==
    {e \in BagToSet(queue) : \A f \in BagToSet(queue) : e[1] <= f[1]}

\* The entries heappop may return: the least of the heap.
HeapMin(queue) ==
    {e \in BagToSet(queue) : \A f \in BagToSet(queue) : ~TupleLess(f, e)}

heappush(queue, e) == queue (+) SetToBag({e})

heappop(queue, e) == queue (-) SetToBag({e})

\* -------------------------------------------------------- a_star_search
\* popped is the history of the nodes heappop returned.
NewRun ==
    [pc |-> "seed", queue |-> EmptyBag, costs |-> <<>>, visited |-> {},
     ranking |-> <<>>, popped |-> <<>>]

\* No invocation.
Idle == [NewRun EXCEPT !.pc = "idle"]

\* A slip: the loop of lines 92-94 is left after its first symptom.
SeedFirstOnly(g, syms, i, r) ==
    IF i > Len(syms) THEN r
    ELSE [r EXCEPT !.queue = heappush(@, <<heuristic(syms[i], g), syms[i], 0>>),
                   !.costs = [n \in DOMAIN @ \cup {syms[i]} |->
                                 IF n = syms[i] THEN 0 ELSE @[n]]]

\* Lines 92-94 for the symptoms from position i on.
RECURSIVE SeedFrom(_, _, _, _)
SeedFrom(g, syms, i, r) ==
    IF i > Len(syms) THEN r
    ELSE LET symptom == syms[i]
         IN  SeedFrom(g, syms, i + 1,
                 [r EXCEPT !.queue = heappush(@, <<heuristic(symptom, g), symptom, 0>>),
                           !.costs = [n \in DOMAIN @ \cup {symptom} |->
                                         IF n = symptom THEN 0 ELSE @[n]]])

\* heuristic(symptom, G) raises KeyError for an identifier that is no node.
SeedRaises(syms) == \E i \in 1..Len(syms) : syms[i] \notin Nodes

Seeded(g, syms, r) ==
    IF SeedRaises(syms) THEN [r EXCEPT !.pc = "raised"]
    ELSE [SeedFrom(g, syms, 1, r) EXCEPT !.pc = "loop"]

\* A slip: the first cost found for a neighbour is kept.
FirstFound(g, r, current, c) ==
    {nb \in Neighbors(g, current) :
        /\ nb \notin r.visited \cup {current}
        /\ edge_weight(g, current, nb) # Inf
        /\ nb \notin DOMAIN r.costs}

\* A slip: the test of line 117 is missing, and every cost found for a
\* neighbour replaces the one in the table.
Overwritten(g, r, current, c) ==
    {nb \in Neighbors(g, current) :
        /\ nb \notin r.visited \cup {current}
        /\ edge_weight(g, current, nb) # Inf}

\* The neighbours whose cost line 117 improves, popping current at cost c.
Improved(g, r, current, c) ==
    {nb \in Neighbors(g, current) :
        /\ nb \notin r.visited \cup {current}
        /\ edge_weight(g, current, nb) # Inf
        /\ \/ nb \notin DOMAIN r.costs
           \/ c + edge_weight(g, current, nb) < r.costs[nb]}

\* A slip: the cost of the edge alone, without what was accumulated.
EdgeOnlyCost(g, current, c, nb) == edge_weight(g, current, nb)

RelaxedCost(g, current, c, nb) == c + edge_weight(g, current, nb)

RelaxedEntry(g, current, c, nb) ==
    <<RelaxedCost(g, current, c, nb) + heuristic(nb, g), nb,
      RelaxedCost(g, current, c, nb)>>

\* A slip: the check of lines 99-100 is missing, and an entry popped for a
\* visited node is processed like the first one.
Reprocess(r, e) ==
    LET imp == Improved(G, r, e[2], e[3])
    IN  IF IsDisease(G, e[2])
        THEN [r EXCEPT !.queue = heappop(@, e),
                       !.popped = Append(@, e[2]),
                       !.costs = [@ EXCEPT ![e[2]] = e[3]]]
        ELSE [r EXCEPT !.queue = heappop(@, e) (+)
                           SetToBag({RelaxedEntry(G, e[2], e[3], nb) : nb \in imp}),
                       !.popped = Append(@, e[2]),
                       !.costs = [n \in DOMAIN @ \cup imp |->
                                     IF n \in imp THEN RelaxedCost(G, e[2], e[3], n)
                                     ELSE @[n]]]

\* Lines 99-100.
Discard(r, e) ==
    [r EXCEPT !.queue = heappop(@, e), !.popped = Append(@, e[2])]

\* A slip: a disease is recorded before it is marked visited, and is not.
RecordUnvisited(r, e) ==
    [r EXCEPT !.queue = heappop(@, e),
              !.popped = Append(@, e[2]),
              !.costs = [n \in DOMAIN @ \cup {e[2]} |->
                            IF n = e[2] THEN e[3] ELSE @[n]]]

\* A slip: the search ends at the first disease it pops.
RecordAndStop(r, e) ==
    [r EXCEPT !.queue = EmptyBag,
              !.popped = Append(@, e[2]),
              !.visited = @ \cup {e[2]},
              !.costs = [n \in DOMAIN @ \cup {e[2]} |->
                            IF n = e[2] THEN e[3] ELSE @[n]]]

\* A slip: the continue of line 106 is missing, and a popped disease is
\* expanded like any other node.
RecordAndRelax(r, e) ==
    LET imp == Improved(G, r, e[2], e[3])
    IN  [r EXCEPT !.queue = heappop(@, e) (+)
                      SetToBag({RelaxedEntry(G, e[2], e[3], nb) : nb \in imp}),
                  !.popped = Append(@, e[2]),
                  !.visited = @ \cup {e[2]},
                  !.costs = [n \in DOMAIN @ \cup imp \cup {e[2]} |->
                                IF n \in imp THEN RelaxedCost(G, e[2], e[3], n)
                                ELSE IF n = e[2] THEN e[3]
                                ELSE @[n]]]

\* Lines 101-106.
Record(r, e) ==
    [r EXCEPT !.queue = heappop(@, e),
              !.popped = Append(@, e[2]),
              !.visited = @ \cup {e[2]},
              !.costs = [n \in DOMAIN @ \cup {e[2]} |->
                            IF n = e[2] THEN e[3] ELSE @[n]]]

\* Lines 101 and 109-120.
Expand(g, r, e) ==
    LET imp == Improved(g, r, e[2], e[3])
    IN  [r EXCEPT !.queue = heappop(@, e) (+)
                      SetToBag({RelaxedEntry(g, e[2], e[3], nb) : nb \in imp}),
                  !.popped = Append(@, e[2]),
                  !.visited = @ \cup {e[2]},
                  !.costs = [n \in DOMAIN @ \cup imp |->
                                IF n \in imp THEN RelaxedCost(g, e[2], e[3], n)
                                ELSE @[n]]]

\* sorted(..., key=cost) is stable: an item goes after every item whose
\* cost is not greater.
RECURSIVE InsertByCost(_, _)
InsertByCost(sorted, item) ==
    IF sorted = <<>> THEN <<item>>
    ELSE IF item[2] < Head(sorted)[2] THEN <<item>> \o sorted
    ELSE <<Head(sorted)>> \o InsertByCost(Tail(sorted), item)

\* A slip: no sort.
Unsorted(items) == items

RECURSIVE SortByCost(_)
SortByCost(items) ==
    IF items = <<>> THEN <<>>
    ELSE InsertByCost(SortByCost(SubSeq(items, 1, Len(items) - 1)),
                      items[Len(items)])

\* A slip: a disease without a cost is scored as infinite.
RECURSIVE AllDiseaseScores(_, _, _)
AllDiseaseScores(g, costs, i) ==
    IF i > Len(g.order) THEN <<>>
    ELSE LET node == g.order[i]
         IN  (IF g.group[node] = "disease"
              THEN <<<<node, IF node \in DOMAIN costs THEN costs[node] ELSE Inf>>>>
              ELSE <<>>)
             \o AllDiseaseScores(g, costs, i + 1)

\* Lines 123-126: disease_scores.items(), in the order G.nodes yields.
RECURSIVE DiseaseScores(_, _, _)
DiseaseScores(g, costs, i) ==
    IF i > Len(g.order) THEN <<>>
    ELSE LET node == g.order[i]
         IN  (IF IsDisease(g, node) /\ node \in DOMAIN costs
              THEN <<<<node, costs[node]>>>> ELSE <<>>)
             \o DiseaseScores(g, costs, i + 1)

Extracted(g, r) ==
    [r EXCEPT !.pc = "done",
              !.ranking = SortByCost(DiseaseScores(g, r.costs, 1))]

\* ------------------------------------------------------------------ main
\* An f"{score:.3f}" of a score of k ln 2, in thousandths (ln 2 = 0.693147).
Format3(k) == (k * 693147 + 500) \div 1000

\* Lines 161 and 164: the list comprehensions over symptoms.
RECURSIVE Comprehend(_, _)
Comprehend(syms, keep) ==
    IF syms = <<>> THEN <<>>
    ELSE (IF Head(syms) \in keep THEN <<Head(syms)>> ELSE <<>>)
         \o Comprehend(Tail(syms), keep)

missing_symptoms(syms) == Comprehend(syms, Ids \ Nodes)

\* A slip: the missing symptoms are reported and kept.
Unchecked(syms) == syms

\* Lines 161-164: main's symptoms after the check against G.nodes().
Checked(syms) ==
    IF missing_symptoms(syms) # <<>> THEN Comprehend(syms, Nodes) ELSE syms

NoFile == [written |-> FALSE, lines |-> <<>>]

\* save_possible_diseases: one line per pair.
Saved(diseases) ==
    [written |-> TRUE,
     lines |-> [i \in 1..Len(diseases) |->
                   <<diseases[i][1], Format3(diseases[i][2])>>]]

\* ----------------------------------------------------------- kaggle_test
\* A disease name or label is a string: a name in lower case, or the same
\* name with capitals.
Cases == {"lower", "Title"}
Labels == (1..NumLabels) \X Cases

\* str.lower
Lower(str) == <<str[1], "lower">>

\* The names get_diagnosis writes are those of the graph's disease nodes, in
\* lower case (get_knowledge_graph, line 47).
Names == {Lower(l) : l \in Labels}

\* The empty string.
Blank == <<0, "lower">>

\* The rankings get_diagnosis may save: every disease at most once.
Rankings ==
    {[i \in 1..Len(ns) |-> <<ns[i], 0>>] :
        ns \in {q \in SeqsUpTo(Names, NumLabels) :
                   \A i, j \in 1..Len(q) : i # j => q[i] # q[j]}}

\* The possible-diseases files get_diagnosis may leave: none, or one line per
\* ranked disease; empty when the write fails after the file is opened.
Files == {NoFile} \cup {Saved(diseases) : diseases \in Rankings}

\* f.read().split('\n'), each piece cut at its first tab (lines 158-159,
\* 166): the names, and the empty string after the last newline.
SplitNames(file) == [i \in 1..Len(file.lines) |-> file.lines[i][1]] \o <<Blank>>

\* Lines 150 and 159-170: the flag after the loop over the lines.
RECURSIVE Flag(_, _)
Flag(diseases, disease_gt) ==
    IF diseases = <<>> THEN 0
    ELSE IF Head(diseases) = Blank THEN Flag(Tail(diseases), disease_gt)
    ELSE IF Lower(Head(diseases)) = Lower(disease_gt) THEN 1
    ELSE Flag(Tail(diseases), disease_gt)

\* counts[disease_gt] of the defaultdict of line 114.
CountsOf(counts, disease_gt) ==
    IF disease_gt \in DOMAIN counts THEN counts[disease_gt]
    ELSE [correct |-> 0, incorrect |-> 0]

\* counts[disease_gt][key] += 1
Incremented(counts, disease_gt, key) ==
    [l \in DOMAIN counts \cup {disease_gt} |->
        IF l = disease_gt
        THEN [CountsOf(counts, disease_gt) EXCEPT ![key] = @ + 1]
        ELSE counts[l]]

\* A slip: a case without a prediction is passed over and not counted.
NoPredictionSkipped(ev, disease_gt) ==
    [ev EXCEPT !.index = @ + 1, !.line = @ + 1, !.exists = FALSE]

\* Lines 140-147: no possible-diseases file.
NoPrediction(ev, disease_gt) ==
    [ev EXCEPT !.index = @ + 1,
               !.line = @ + 1,
               !.exists = FALSE,
               !.counts = Incremented(@, disease_gt, "incorrect")]

\* Lines 150-182: the file is read and the case judged.
Judged(ev, disease_gt, file) ==
    [ev EXCEPT !.index = @ + 1,
               !.line = @ + 1,
               !.exists = TRUE,
               !.counts = Incremented(@, disease_gt,
                              IF Flag(SplitNames(file), disease_gt) = 1
                              THEN "correct" ELSE "incorrect")]

\* The row the for loop of line 118 is at.
HasRow(ev) == ev.index < Len(ev.data)
Row(ev) == ev.data[ev.index + 1]

\* No evaluation.
NoEvaluation ==
    [pc |-> "idle", data |-> <<>>, line_threshold |-> 1, index |-> 0,
     line |-> 0, counts |-> <<>>, exists |-> FALSE]

\* ----------------------------------------------------------- the actions
SearchVars == <<G, symptoms, rerun, loaded, mpc, output, relisted, evaluation>>

SeedQueue ==
    /\ run.pc = "seed"
    /\ run' = Seeded(G, symptoms, run)
    /\ UNCHANGED SearchVars

PopVisited ==
    /\ run.pc = "loop"
    /\ \E e \in HeapMin(run.queue) :
          /\ e[2] \in run.visited
          /\ run' = Discard(run, e)
    /\ UNCHANGED SearchVars

PopDisease ==
    /\ run.pc = "loop"
    /\ \E e \in HeapMin(run.queue) :
          /\ e[2] \notin run.visited
          /\ IsDisease(G, e[2])
          /\ run' = Record(run, e)
    /\ UNCHANGED SearchVars

PopExpand ==
    /\ run.pc = "loop"
    /\ \E e \in HeapMin(run.queue) :
          /\ e[2] \notin run.visited
          /\ ~IsDisease(G, e[2])
          /\ run' = Expand(G, run, e)
    /\ UNCHANGED SearchVars

Extract ==
    /\ run.pc = "loop"
    /\ run.queue = EmptyBag
    /\ run' = Extracted(G, run)
    /\ UNCHANGED SearchVars

Search == SeedQueue \/ PopVisited \/ PopDisease \/ PopExpand \/ Extract

\* One step of an invocation r, as the set of its outcomes.
StepSet(g, syms, r) ==
    IF r.pc = "seed" THEN {Seeded(g, syms, r)}
    ELSE IF r.pc # "loop" THEN {}
    ELSE IF r.queue = EmptyBag THEN {Extracted(g, r)}
    ELSE {IF e[2] \in r.visited THEN Discard(r, e)
          ELSE IF IsDisease(g, e[2]) THEN Record(r, e)
          ELSE Expand(g, r, e) : e \in HeapMin(r.queue)}

\* Two invocations on the same graph and symptoms, stepped side by side.
PairStep ==
    /\ \E a \in StepSet(G, symptoms, run), b \in StepSet(G, symptoms, rerun) :
          /\ run' = a
          /\ rerun' = b
    /\ UNCHANGED <<G, symptoms, loaded, mpc, output, relisted, evaluation>>

\* Two invocations on the same graph, the second on the relisted symptoms;
\* each goes on to its own end.
RelistStep ==
    /\ \/ StepSet(G, symptoms, run) # {}
       \/ StepSet(G, relisted, rerun) # {}
    /\ run' \in (IF StepSet(G, symptoms, run) = {} THEN {run}
                 ELSE StepSet(G, symptoms, run))
    /\ rerun' \in (IF StepSet(G, relisted, rerun) = {} THEN {rerun}
                   ELSE StepSet(G, relisted, rerun))
    /\ UNCHANGED <<G, symptoms, loaded, mpc, output, relisted, evaluation>>

\* main, lines 160-168: no symptom is a node of the graph.
MainNoValid ==
    /\ mpc = "main"
    /\ Checked(symptoms) = <<>>
    /\ symptoms' = Checked(symptoms)
    /\ mpc' = "exit"
    /\ UNCHANGED <<G, run, rerun, loaded, output, relisted, evaluation>>

\* main, lines 160-172: the call of a_star_search.
MainSearch ==
    /\ mpc = "main"
    /\ Checked(symptoms) # <<>>
    /\ symptoms' = Checked(symptoms)
    /\ run' = NewRun
    /\ mpc' = "search"
    /\ UNCHANGED <<G, rerun, loaded, output, relisted, evaluation>>

\* main, lines 174-176: nothing to report.
MainNoDisease ==
    /\ mpc = "search"
    /\ run.pc = "done"
    /\ run.ranking = <<>>
    /\ mpc' = "exit"
    /\ UNCHANGED <<G, symptoms, run, rerun, loaded, output, relisted, evaluation>>

\* main, lines 178-184; the write may fail (lines 139-140).
MainSave ==
    /\ mpc = "search"
    /\ run.pc = "done"
    /\ run.ranking # <<>>
    /\ output' \in {Saved(run.ranking), output}
    /\ mpc' = "exit"
    /\ UNCHANGED <<G, symptoms, run, rerun, loaded, relisted, evaluation>>

EvalVars == <<G, symptoms, run, rerun, loaded, mpc, relisted>>

\* Lines 118-120: the threshold is reached with rows left.
EvalBreak ==
    /\ evaluation.pc = "loop"
    /\ HasRow(evaluation)
    /\ evaluation.line >= evaluation.line_threshold
    /\ evaluation' = [evaluation EXCEPT !.pc = "done"]
    /\ UNCHANGED <<output, EvalVars>>

\* Line 118: no row is left.
EvalExhausted ==
    /\ evaluation.pc = "loop"
    /\ ~HasRow(evaluation)
    /\ evaluation' = [evaluation EXCEPT !.pc = "done"]
    /\ UNCHANGED <<output, EvalVars>>

\* Lines 96-97: get_symptoms left no symptoms.txt, and open raises.
EvalRaise ==
    /\ evaluation.pc = "loop"
    /\ HasRow(evaluation)
    /\ evaluation.line < evaluation.line_threshold
    /\ evaluation' = [evaluation EXCEPT !.pc = "raised"]
    /\ UNCHANGED <<output, EvalVars>>

\* Lines 124-147: a row for which get_diagnosis leaves no file.
EvalNoFile ==
    /\ evaluation.pc = "loop"
    /\ HasRow(evaluation)
    /\ evaluation.line < evaluation.line_threshold
    /\ output' = NoFile
    /\ evaluation' = NoPrediction(evaluation, Row(evaluation))
    /\ UNCHANGED EvalVars

\* Lines 124-138 and 150-182: a row for which get_diagnosis leaves a file.
EvalJudge ==
    /\ evaluation.pc = "loop"
    /\ HasRow(evaluation)
    /\ evaluation.line < evaluation.line_threshold
    /\ \E file \in Files \ {NoFile} :
          /\ output' = file
          /\ evaluation' = Judged(evaluation, Row(evaluation), file)
    /\ UNCHANGED EvalVars

\* ------------------------------------------------------------------ init
Identity == [i \in 1..NumNodes |-> i]
Reversed == [i \in 1..NumNodes |-> NumNodes + 1 - i]

Graphs ==
    {[group |-> grp, edge |-> ed, order |-> ord] :
        grp \in [Nodes -> Groups],
        ed \in UNION {[E -> EdgeData] : E \in SUBSET Pairs},
        ord \in {Identity, Reversed}}

\* a_star_search called on a graph and a symptom list.
Init ==
    /\ G \in Graphs
    /\ symptoms \in SeqsUpTo(Ids, MaxSymptoms)
    /\ run = NewRun
    /\ rerun = Idle
    /\ loaded = <<>>
    /\ mpc = "direct"
    /\ output = NoFile
    /\ relisted = <<>>
    /\ evaluation = NoEvaluation

Next == Search

Spec == Init /\ [][Next]_vars

\* The calls whose symptoms are all nodes, on the graphs whose nodes are
\* in the order of their identifiers.
InitFair ==
    /\ G \in {g \in Graphs : g.order = Identity}
    /\ symptoms \in SeqsUpTo(Nodes, MaxSymptoms)
    /\ run = NewRun
    /\ rerun = Idle
    /\ loaded = <<>>
    /\ mpc = "direct"
    /\ output = NoFile
    /\ relisted = <<>>
    /\ evaluation = NoEvaluation

\* The search is not suspended: a step that can happen does.
FairSpec == InitFair /\ [][Next]_vars /\ WF_vars(Next)

\* The same call, made twice.
InitPair ==
    /\ G \in Graphs
    /\ symptoms \in SeqsUpTo(Ids, MaxSymptoms)
    /\ run = NewRun
    /\ rerun = NewRun
    /\ loaded = <<>>
    /\ mpc = "direct"
    /\ output = NoFile
    /\ relisted = <<>>
    /\ evaluation = NoEvaluation

NextPair == PairStep

SpecPair == InitPair /\ [][NextPair]_vars

\* The identifiers of a list.
Listed(syms) == {syms[i] : i \in 1..Len(syms)}

\* A call, and a call whose symptom list holds the same identifiers, in any
\* order and any number of times.
InitRelist ==
    /\ G \in Graphs
    /\ symptoms \in SeqsUpTo(Nodes, MaxSymptoms)
    /\ relisted \in {l \in SeqsUpTo(Nodes, MaxSymptoms) : Listed(l) = Listed(symptoms)}
    /\ run = NewRun
    /\ rerun = NewRun
    /\ loaded = <<>>
    /\ mpc = "direct"
    /\ output = NoFile
    /\ evaluation = NoEvaluation

NextRelist == RelistStep

SpecRelist == InitRelist /\ [][NextRelist]_vars

\* The get_diagnosis pipeline, from the loaded graph and symptom file.
InitMain ==
    /\ G \in Graphs
    /\ loaded \in SeqsUpTo(Ids, MaxSymptoms)
    /\ symptoms = loaded
    /\ run = Idle
    /\ rerun = Idle
    /\ mpc = "main"
    /\ output = NoFile
    /\ relisted = <<>>
    /\ evaluation = NoEvaluation

NextMain == MainNoValid \/ MainSearch \/ Search \/ MainNoDisease \/ MainSave

SpecMain == InitMain /\ [][NextMain]_vars

\* kaggle_test's main on a dataset and a threshold that line 209 let pass;
\* the graph is in its pickle file, which only get_diagnosis reads.
InitEval ==
    /\ G = [group |-> [n \in Nodes |-> "disease"], edge |-> <<>>, order |-> Identity]
    /\ symptoms = <<>>
    /\ run = Idle
    /\ rerun = Idle
    /\ loaded = <<>>
    /\ mpc = "idle"
    /\ output = NoFile
    /\ relisted = <<>>
    /\ \E data \in SeqsUpTo(Labels, MaxRows), line_threshold \in 1..(MaxRows + 1) :
          evaluation = [NoEvaluation EXCEPT !.pc = "loop", !.data = data,
                                           !.line_threshold = line_threshold]

NextEval == EvalBreak \/ EvalExhausted \/ EvalRaise \/ EvalNoFile \/ EvalJudge

SpecEval == InitEval /\ [][NextEval]_vars

\* ---------------------------------------------------- what the claims say
The == run

Returned == The.pc = "done"

Seeds == {symptoms[i] : i \in 1..Len(symptoms)}

Ranked == {The.ranking[i][1] : i \in 1..Len(The.ranking)}

\* The cost of an edge as the claims state it: k ln 2 for a weight
\* 2^(-k) > 0, infinite for any other edge.
ClaimCost(u, v) ==
    IF {u, v} \notin DOMAIN G.edge THEN Inf
    ELSE IF G.edge[{u, v}] = <<>> THEN Inf
    ELSE IF G.edge[{u, v}][1] <= 0 THEN Inf
    ELSE CHOOSE k \in 0..MaxExp : G.edge[{u, v}][1] * Pow2(k) = Den

\* The paths of the graph: sequences of distinct nodes (no edge costs less
\* than 0, so a walk that repeats a node is never the cheapest).
Paths ==
    {p \in SeqsUpTo(Nodes, NumNodes) :
        /\ Len(p) >= 1
        /\ \A i, j \in 1..Len(p) : i # j => p[i] # p[j]}

RECURSIVE PathCost(_)
PathCost(p) ==
    IF Len(p) <= 1 THEN 0
    ELSE LET rest == PathCost(Tail(p))
         IN  IF ClaimCost(p[1], p[2]) = Inf \/ rest = Inf THEN Inf
             ELSE ClaimCost(p[1], p[2]) + rest

MinCost(S) == IF S = {} THEN Inf ELSE SetMin(S)

SeedPaths(d) == {p \in Paths : p[1] \in Seeds /\ p[Len(p)] = d}

\* Paths whose interior nodes are no diseases.
InteriorFree(p) == \A i \in 2..(Len(p) - 1) : ~IsDisease(G, p[i])

\* Paths none of whose nodes before the last is a disease.
SinkFree(p) == \A i \in 1..(Len(p) - 1) : ~IsDisease(G, p[i])

Plus(a, b) == IF a = Inf \/ b = Inf THEN Inf ELSE a + b

\* k rounds of relaxation of every edge, in both directions: the least cost
\* of a walk of at most k edges from where dist is 0.
RECURSIVE Relaxed(_, _)
Relaxed(dist, k) ==
    IF k = 0 THEN dist
    ELSE Relaxed([n \in Nodes |->
                     MinCost({dist[n]} \cup
                             {Plus(dist[m], ClaimCost(m, n)) : m \in Nodes \ {n}})],
                 k - 1)

\* The least cost of a path from a seed to each node, through nodes of any
\* kind.
FromSeeds ==
    Relaxed([n \in Nodes |-> IF n \in Seeds THEN 0 ELSE Inf], NumNodes - 1)

AnyPathCost(d) == FromSeeds[d]

InteriorFreeCost(d) ==
    MinCost({PathCost(p) : p \in {q \in SeedPaths(d) : InteriorFree(q)}})

SinkFreeCost(d) ==
    MinCost({PathCost(p) : p \in {q \in SeedPaths(d) : SinkFree(q)}})

SymptomSeeds == \A s \in Seeds : s \in Nodes /\ ~IsDisease(G, s)

\* C1, as stated, for seeds that are symptom nodes: every returned
\* (disease, cost) has the least cost over all paths of the graph from a
\* seed to the disease, through nodes of any kind.
C1_AnyPathMinimum ==
    (Returned /\ SymptomSeeds) =>
        \A i \in 1..Len(The.ranking) :
            The.ranking[i][2] = AnyPathCost(The.ranking[i][1])

\* C1, amended: every returned (disease, cost) has the least cost over the
\* paths from a seed to the disease none of whose nodes before the disease
\* is a disease, and that cost is finite.
C1_SinkFreeMinimum ==
    Returned =>
        \A i \in 1..Len(The.ranking) :
            /\ The.ranking[i][2] = SinkFreeCost(The.ranking[i][1])
            /\ The.ranking[i][2] < Inf

\* A returned disease that a path through a disease reaches at less than the
\* cost reported for it.
C1_Witness ==
    /\ Returned
    /\ SymptomSeeds
    /\ \E i \in 1..Len(The.ranking) :
          /\ The.ranking[i][2] > 0
          /\ AnyPathCost(The.ranking[i][1]) < The.ranking[i][2]

\* C2, as stated: the cost reported for a disease is the least cost over the
\* seed-to-disease paths whose interior nodes are no diseases.
C2_InteriorFreeMinimum ==
    Returned =>
        \A i \in 1..Len(The.ranking) :
            The.ranking[i][2] = InteriorFreeCost(The.ranking[i][1])

\* C2, amended: the cost reported for a disease d is the cost of the
\* cheapest seed-to-d path none of whose nodes before d is a disease: no
\* such path costs less than what is reported, whichever was discovered
\* first, and one of them costs exactly that.
C2_CheapestPathWins ==
    Returned =>
        \A i \in 1..Len(The.ranking) :
            LET d == The.ranking[i][1]
                reported == The.ranking[i][2]
                through == {q \in SeedPaths(d) : SinkFree(q)}
            IN  /\ \A p \in through : reported <= PathCost(p)
                /\ \E p \in through : reported = PathCost(p)

\* One symptom seed with a direct edge to a disease, which is reported at
\* less than that edge costs: the path through another symptom won.
C2_Witness ==
    /\ Returned
    /\ Len(symptoms) = 1
    /\ \E i \in 1..Len(The.ranking) :
          /\ ~IsDisease(G, symptoms[1])
          /\ ClaimCost(symptoms[1], The.ranking[i][1]) < Inf
          /\ The.ranking[i][2] < ClaimCost(symptoms[1], The.ranking[i][1])

Diseases == {n \in Nodes : IsDisease(G, n)}

\* C3, as stated, for seeds that are symptom nodes: every disease that a
\* path of finite-cost edges joins to a seed is in the returned ranking.
C3_AllReachableRanked ==
    (Returned /\ SymptomSeeds) =>
        \A d \in Diseases : AnyPathCost(d) < Inf => d \in Ranked

\* C3, amended: every disease that a path of finite-cost edges joins to a
\* seed, with no disease on the path before it, is in the returned ranking.
C3_AllSinkFreeReachableRanked ==
    Returned =>
        \A d \in Diseases : SinkFreeCost(d) < Inf => d \in Ranked

\* Two diseases ranked at different costs: the farther one is not dropped.
C3_Witness ==
    /\ Returned
    /\ SymptomSeeds
    /\ Len(The.ranking) >= 2
    /\ The.ranking[1][2] < The.ranking[Len(The.ranking)][2]

\* C4: a disease that no path of finite-cost edges joins to a seed is not in
\* the ranking, and no ranked cost is infinite.
C4_UnreachableAbsent ==
    Returned =>
        /\ \A d \in Diseases : AnyPathCost(d) = Inf => d \notin Ranked
        /\ \A i \in 1..Len(The.ranking) : The.ranking[i][2] < Inf

\* A disease whose only edges to the rest of the graph have a weight <= 0 or
\* none, next to a seed, is left out of a ranking that has another disease.
C4_Witness ==
    /\ Returned
    /\ The.ranking # <<>>
    /\ \E d \in Diseases \ Ranked :
          \E s \in Seeds : {s, d} \in DOMAIN G.edge /\ ClaimCost(s, d) = Inf

\* C5: the ranking is non-decreasing in cost, holds diseases only and holds
\* no disease twice.
C5_RankingOrdered ==
    Returned =>
        /\ \A i \in 1..(Len(The.ranking) - 1) :
              The.ranking[i][2] <= The.ranking[i + 1][2]
        /\ \A i \in 1..Len(The.ranking) : IsDisease(G, The.ranking[i][1])
        /\ \A i, j \in 1..Len(The.ranking) :
              i # j => The.ranking[i][1] # The.ranking[j][1]

\* A ranking of several diseases whose costs differ, the cheapest being a
\* node that G.nodes yields after the dearest.
C5_Witness ==
    /\ Returned
    /\ Len(The.ranking) >= 2
    /\ The.ranking[1][2] < The.ranking[Len(The.ranking)][2]
    /\ \E i, j \in 1..NumNodes :
          /\ i < j
          /\ G.order[i] = The.ranking[Len(The.ranking)][1]
          /\ G.order[j] = The.ranking[1][1]

\* C6: two invocations on the same graph and symptoms, stepped side by side,
\* are in the same state after every step: the same queue, cost table and
\* visited set, the same nodes popped in the same order, the same ranking.
C6_Deterministic == run = rerun

\* Both invocations have popped, and the queue holds entries for different
\* nodes at the same estimated total cost.
C6_Witness ==
    /\ run.pc = "loop"
    /\ rerun.pc = "loop"
    /\ run.popped # <<>>
    /\ \E e, f \in BagToSet(run.queue) : e[1] = f[1] /\ e[2] # f[2]

\* C7: once in its loop the search comes to its end with an empty queue, and
\* then every node of the cost table has been popped and is visited.
C7_Terminates ==
    (The.pc = "loop") ~>
        /\ The.pc = "done"
        /\ The.queue = EmptyBag
        /\ DOMAIN The.costs \subseteq The.visited
        /\ \A n \in DOMAIN The.costs :
              \E i \in 1..Len(The.popped) : The.popped[i] = n

\* The search has ended after visiting several nodes, one of them more than
\* once in the queue.
C7_Witness ==
    /\ Returned
    /\ Cardinality(The.visited) >= 2
    /\ Len(The.popped) > Cardinality(The.visited)

NoneReachable == \A d \in Diseases : AnyPathCost(d) = Inf

\* C8: with every symptom a node of the graph and no disease reachable, the
\* search does not raise and what it returns is the empty ranking; so it is
\* with no symptom at all.
C8_EmptyRanking ==
    (Seeds \subseteq Nodes /\ NoneReachable) =>
        /\ The.pc # "raised"
        /\ Returned => The.ranking = <<>>

\* The search has returned from a call with no symptom.
C8_Witness ==
    /\ Returned
    /\ symptoms = <<>>
    /\ The.ranking = <<>>
    /\ Diseases # {}

InGraph(s) == s \in Nodes

\* C9: after main's check the symptoms are the loaded identifiers that are
\* nodes of the graph, in their order; the search is invoked with them only,
\* never with an identifier that is no node, and never raises; with none
\* left there is no invocation and no output.
C9_UnknownDropped ==
    /\ mpc # "main" => symptoms = SelectSeq(loaded, InGraph)
    /\ run.pc # "idle" =>
          /\ symptoms = SelectSeq(loaded, InGraph)
          /\ symptoms # <<>>
          /\ run.pc # "raised"
    /\ SelectSeq(loaded, InGraph) = <<>> =>
          /\ run.pc = "idle"
          /\ ~output.written

\* The search has returned from a call main made after dropping an unknown
\* identifier that stood before a known one.
C9_Witness ==
    /\ mpc = "search"
    /\ run.pc = "done"
    /\ Len(loaded) = 2
    /\ loaded[1] \notin Nodes
    /\ symptoms = <<loaded[2]>>

\* The least cost of a path from n to a disease, through nodes of any kind.
ToDisease ==
    Relaxed([n \in Nodes |-> IF IsDisease(G, n) THEN 0 ELSE Inf], NumNodes - 1)

DiseaseDist(n) == ToDisease[n]

Incident(n) == {m \in Nodes \ {n} : {n, m} \in DOMAIN G.edge}

\* C10: heuristic(n) is 0 for a disease and for a node without edges, else
\* the least cost of an edge at n; and it is never more than the cost of the
\* cheapest path from n to a disease.
C10_HeuristicLowerBound ==
    LET remaining == ToDisease
    IN  \A n \in Nodes :
            /\ heuristic(n, G) =
                  IF IsDisease(G, n) \/ Incident(n) = {} THEN 0
                  ELSE MinCost({ClaimCost(n, m) : m \in Incident(n)})
            /\ heuristic(n, G) <= remaining[n]

\* The queue holds a seed at a positive estimate that is less than the cost
\* of its cheapest path to a disease.
C10_Witness ==
    /\ The.pc = "loop"
    /\ \E n \in Seeds :
          /\ 0 < heuristic(n, G)
          /\ heuristic(n, G) < DiseaseDist(n)
          /\ DiseaseDist(n) < Inf
          /\ <<heuristic(n, G), n, 0>> \in BagToSet(The.queue)

\* The node of the entry that the step popped.
Current == run'.popped[Len(run'.popped)]

PopStep == run.pc = "loop" /\ run'.pc = "loop" /\ run'.popped # run.popped

\* The nodes that chains of finite-cost edges join to a seed, every node
\* of the chain before its last being no disease; k more edges from S.
RECURSIVE ChainedFrom(_, _)
ChainedFrom(S, k) ==
    IF k = 0 THEN S
    ELSE ChainedFrom(S \cup {n \in Nodes :
                                \E m \in S : /\ ~IsDisease(G, m)
                                             /\ m # n
                                             /\ ClaimCost(m, n) < Inf},
                     k - 1)

ChainReached(r) == DOMAIN r.costs \subseteq ChainedFrom(Seeds \cap Nodes, NumNodes - 1)

\* C11: disease nodes are sinks. A step that pops a disease pushes no queue
\* entry and neither creates nor changes the cost-table entry of any other
\* node, so nothing is relaxed through an edge whose source end is a
\* disease; and every node of the cost table is joined to a seed by a chain
\* of finite-cost edges whose nodes before the last are no diseases.
C11_DiseasesAreSinks ==
    [][/\ (PopStep /\ IsDisease(G, Current)) =>
             /\ run'.queue \sqsubseteq run.queue
             /\ \A n \in DOMAIN run'.costs \ {Current} :
                    n \in DOMAIN run.costs /\ run'.costs[n] = run.costs[n]
       /\ ChainReached(run')]_vars

\* A finished search that visited a disease with a finite-cost edge to a
\* node that never got a cost.
C11_Witness ==
    /\ Returned
    /\ \E d \in The.visited, n \in Nodes \ DOMAIN The.costs :
          /\ IsDisease(G, d)
          /\ d # n
          /\ ClaimCost(d, n) < Inf

PoppedBefore(n) == \E i \in 1..Len(run.popped) : run.popped[i] = n

\* C12: the visited set holds finalized nodes. A step that pops an entry for
\* a visited node removes that entry from the queue and changes neither the
\* cost table nor the visited set; a step that pops an entry for any other
\* node marks that node, and no other, visited, and the node was never
\* popped before, so that it is marked and processed once; and over every
\* step a visited node stays visited with the cost it has.
C12_VisitedFinal ==
    [][/\ (PopStep /\ Current \in run.visited) =>
             /\ run'.costs = run.costs
             /\ run'.visited = run.visited
             /\ run'.queue \sqsubseteq run.queue
             /\ BagCardinality(run'.queue) = BagCardinality(run.queue) - 1
       /\ (PopStep /\ Current \notin run.visited) =>
             /\ ~PoppedBefore(Current)
             /\ run'.visited = run.visited \cup {Current}
       /\ ~PopStep => run'.visited = run.visited
       /\ \A n \in run.visited :
             /\ n \in DOMAIN run.costs
             /\ n \in DOMAIN run'.costs
             /\ run'.costs[n] = run.costs[n]]_vars

\* A finished search that popped twice a disease that is no seed: the entry
\* popped second was pushed first, at a greater cost than the one recorded.
C12_Witness ==
    /\ Returned
    /\ \E i, j \in 1..Len(The.popped) :
          /\ i < j
          /\ The.popped[i] = The.popped[j]
          /\ IsDisease(G, The.popped[i])
          /\ The.popped[i] \notin Seeds

\* The entries of the queue for node n.
EntriesFor(n) == {e \in BagToSet(run.queue) : e[2] = n}

\* C14: an entry that heappop can return for a node not yet visited carries
\* the node's cost-table value, which is the least cost of the entries the
\* queue holds for the node; and the step that pops a disease not yet
\* visited leaves the cost table as it is.
C14_PoppedCostIsCurrent ==
    [][/\ run.pc = "loop" =>
             \A e \in HeapMin(run.queue) :
                 e[2] \notin run.visited =>
                     /\ e[2] \in DOMAIN run.costs
                     /\ e[3] = run.costs[e[2]]
                     /\ \A f \in EntriesFor(e[2]) : e[3] <= f[3]
       /\ (PopStep /\ Current \notin run.visited /\ IsDisease(G, Current)) =>
             run'.costs = run.costs]_vars

\* A disease not yet visited is about to be popped while the queue holds a
\* second entry for it, of a greater cost.
C14_Witness ==
    /\ The.pc = "loop"
    /\ \E e \in HeapMin(The.queue) :
          /\ e[2] \notin The.visited
          /\ IsDisease(G, e[2])
          /\ \E f \in EntriesFor(e[2]) : f[3] > e[3]

\* C15: the ranking depends on the graph and on the set of seed identifiers
\* only. Two searches of one graph whose symptom lists hold the same
\* identifiers, in any order and any number of times, return the same
\* ordered ranking with the same costs.
C15_SeedSetOnly ==
    (run.pc = "done" /\ rerun.pc = "done") => run.ranking = rerun.ranking

\* Both searches have returned several diseases, from different lists, and
\* did not pop the same entries.
C15_Witness ==
    /\ run.pc = "done"
    /\ rerun.pc = "done"
    /\ symptoms # relisted
    /\ run.popped # rerun.popped
    /\ Len(run.ranking) >= 2

RECURSIVE SumOver(_, _)
SumOver(counts, labels) ==
    IF labels = {} THEN 0
    ELSE LET l == CHOOSE x \in labels : TRUE
         IN  counts[l].correct + counts[l].incorrect + SumOver(counts, labels \ {l})

\* correct + incorrect, over every disease counted.
Counted(ev) == SumOver(ev.counts, DOMAIN ev.counts)

Least(a, b) == IF a <= b THEN a ELSE b

\* A step of the evaluation loop that processes a case.
CaseStep == evaluation.pc = "loop" /\ evaluation'.index = evaluation.index + 1

GroundTruth == evaluation.data[evaluation.index + 1]

Before == IF GroundTruth \in DOMAIN evaluation.counts
          THEN evaluation.counts[GroundTruth]
          ELSE [correct |-> 0, incorrect |-> 0]

\* C13: every case the evaluation loop processes adds one to exactly one of
\* the two counters of its ground-truth disease and changes no other
\* counter, the incorrect one when the diagnosis left no file; and when the
\* loop is over the counters add up to the number of cases processed, which
\* is the lesser of line_threshold and the number of rows.
C13_EveryCaseCounted ==
    [][/\ CaseStep =>
             /\ GroundTruth \in DOMAIN evaluation'.counts
             /\ \/ /\ evaluation'.counts[GroundTruth].correct = Before.correct + 1
                   /\ evaluation'.counts[GroundTruth].incorrect = Before.incorrect
                   /\ evaluation'.exists
                \/ /\ evaluation'.counts[GroundTruth].correct = Before.correct
                   /\ evaluation'.counts[GroundTruth].incorrect = Before.incorrect + 1
             /\ \A l \in DOMAIN evaluation'.counts \ {GroundTruth} :
                    l \in DOMAIN evaluation.counts
                    /\ evaluation'.counts[l] = evaluation.counts[l]
             /\ evaluation'.line = evaluation.line + 1
       /\ evaluation'.pc = "done" =>
             /\ Counted(evaluation') = evaluation'.line
             /\ evaluation'.line =
                    Least(evaluation'.line_threshold, Len(evaluation'.data))]_vars

\* The loop is over at the threshold with rows left, after a case judged
\* correct and a case without a file.
C13_Witness ==
    /\ evaluation.pc = "done"
    /\ evaluation.line_threshold < Len(evaluation.data)
    /\ ~evaluation.exists
    /\ \E l \in DOMAIN evaluation.counts : evaluation.counts[l].correct >= 1

====
